---- MODULE Spec2Model ----
(***************************************************************************)
(* Model of the Monte Carlo risk engine (statistics calibrator, correlated *)
(* path simulator, distribution summarizer, position sizer) and of the     *)
(* Hybrid screener's batch loop of TeamCinco/Market_Analysis_files.        *)
(*                                                                         *)
(* Floating-point values are modelled as extended rationals <<n, d>>:      *)
(* d > 0 is the rational n/d in lowest terms, <<0, 0>> is NaN and          *)
(* <<1, 0>>, <<-1, 0>> are +inf and -inf.  Rounding error is not modelled. *)
(***************************************************************************)
EXTENDS Integers, Sequences, FiniteSets, TLC

VARIABLES
    sizing,          \* position sizer: << >> or <<the recommendation record>>
    rng_state,       \* state of the process-wide generator (np.random)
    sim,             \* << >> or <<what run_monte_carlo returned or raised>>
    runs,            \* completed simulate+summarize runs, oldest first
    numpy_empty,     \* what this build's np.percentile does on an empty array
    sim_args,        \* the arguments the engine is constructed with
    summary,         \* summarizer called on its own: inputs and outcomes
    calib,           \* calibrator: its inputs and << >> or <<its outcome>>
    engine,          \* one engine object: constructor arguments and progress
    i,               \* screener: number of tickers processed by main's loop
    RESULTS,         \* screener: the global RESULTS list
    filtered_counts, \* screener: main's filtered_counts dict
    output_file,     \* screener: rows last written to config.OUTPUT_FILE
    screen_log,      \* screener: per processed ticker, what happened to it
    pc,              \* screener: where main is ("loop", "done", "failed",
                     \* "exited")
    sigint           \* screener: SIGINTs delivered and what became of them

vars == <<sizing, rng_state, sim, runs, numpy_empty, sim_args, summary, calib,
          engine, i, RESULTS, filtered_counts, output_file, screen_log, pc,
          sigint>>

sizerVars  == <<sizing>>
simVars    == <<rng_state, sim, runs, numpy_empty, sim_args>>
summaryVars == <<summary>>
engineVars == <<engine>>
calibVars  == <<calib>>
screenVars == <<i, RESULTS, filtered_counts, output_file, screen_log, pc,
               sigint>>

-----------------------------------------------------------------------------
(* Extended rational arithmetic: the float operations the code performs.   *)

Abs(n) == IF n < 0 THEN -n ELSE n

Sign(n) == IF n > 0 THEN 1 ELSE IF n < 0 THEN -1 ELSE 0

RECURSIVE Gcd(_, _)
Gcd(a, b) == IF b = 0 THEN a ELSE Gcd(b, a % b)

\* lowest terms, positive denominator; a zero denominator keeps only the sign
Norm(n, d) ==
    IF d = 0 THEN <<Sign(n), 0>>
    ELSE LET g == Gcd(Abs(n), Abs(d))
         IN  <<Sign(d) * (n \div g), Abs(d) \div g>>

R(n)      == <<n, 1>>
Q(n, d)   == Norm(n, d)
NaN       == <<0, 0>>
IsNaN(a)  == a = NaN
IsInf(a)  == a[2] = 0 /\ a[1] # 0
IsFinite(a) == a[2] > 0

RMul(a, b) == Norm(a[1] * b[1], a[2] * b[2])

RNeg(a) == <<-a[1], a[2]>>

RAdd(a, b) ==
    IF IsInf(a) /\ IsInf(b) THEN (IF a = b THEN a ELSE NaN)
    ELSE Norm(a[1] * b[2] + b[1] * a[2], a[2] * b[2])

RSub(a, b) == RAdd(a, RNeg(b))

\* numpy float division: x/0 is +-inf, 0/0 is NaN, no exception
RDiv(a, b) == Norm(a[1] * b[2] * Sign(b[1]), a[2] * Abs(b[1]))

RAbs(a) == <<Abs(a[1]), a[2]>>

\* comparisons are false as soon as one side is NaN
RLt(a, b) ==
    /\ ~IsNaN(a) /\ ~IsNaN(b)
    /\ IF IsInf(a) \/ IsInf(b)
       THEN (IF IsInf(a) THEN a[1] ELSE 0) < (IF IsInf(b) THEN b[1] ELSE 0)
       ELSE a[1] * b[2] < b[1] * a[2]

RGt(a, b) == RLt(b, a)

RLe(a, b) == ~IsNaN(a) /\ ~IsNaN(b) /\ ~RLt(b, a)

\* Python's builtin min(a, b): the first argument unless the second is smaller
PyMin(a, b) == IF RLt(b, a) THEN b ELSE a

-----------------------------------------------------------------------------
(* Position sizer: _plot_position_sizing of both engines.                  *)

None == << >>

PlotPositionSizingWrongScale(loss_5th, starting_capital, max_tolerable_loss_pct) ==
    LET max_loss_dollars ==
            RMul(RDiv(max_tolerable_loss_pct, R(100)), starting_capital)
        recommended_position ==
            IF RGt(RAbs(loss_5th), R(0))
            THEN PyMin(RDiv(max_loss_dollars, RAbs(loss_5th)), starting_capital)
            ELSE starting_capital
        position_pct == RMul(RDiv(recommended_position, starting_capital), R(100))
    IN  [loss_5th |-> loss_5th,
         starting_capital |-> starting_capital,
         max_tolerable_loss_pct |-> max_tolerable_loss_pct,
         recommended_position |-> recommended_position,
         position_pct |-> position_pct,
         cash_pct |-> RSub(R(100), position_pct)]

PlotPositionSizingNoAbs(loss_5th, starting_capital, max_tolerable_loss_pct) ==
    LET max_loss_dollars ==
            RMul(RDiv(max_tolerable_loss_pct, R(100)), starting_capital)
        recommended_position ==
            IF RGt(RAbs(loss_5th), R(0))
            THEN PyMin(RMul(RDiv(max_loss_dollars, loss_5th), R(100)),
                       starting_capital)
            ELSE starting_capital
        position_pct == RMul(RDiv(recommended_position, starting_capital), R(100))
    IN  [loss_5th |-> loss_5th,
         starting_capital |-> starting_capital,
         max_tolerable_loss_pct |-> max_tolerable_loss_pct,
         recommended_position |-> recommended_position,
         position_pct |-> position_pct,
         cash_pct |-> RSub(R(100), position_pct)]

PlotPositionSizingUncapped(loss_5th, starting_capital, max_tolerable_loss_pct) ==
    LET max_loss_dollars ==
            RMul(RDiv(max_tolerable_loss_pct, R(100)), starting_capital)
        recommended_position ==
            IF RGt(RAbs(loss_5th), R(0))
            THEN RMul(RDiv(max_loss_dollars, RAbs(loss_5th)), R(100))
            ELSE starting_capital
        position_pct == RMul(RDiv(recommended_position, starting_capital), R(100))
    IN  [loss_5th |-> loss_5th,
         starting_capital |-> starting_capital,
         max_tolerable_loss_pct |-> max_tolerable_loss_pct,
         recommended_position |-> recommended_position,
         position_pct |-> position_pct,
         cash_pct |-> RSub(R(100), position_pct)]

PlotPositionSizing(loss_5th, starting_capital, max_tolerable_loss_pct) ==
    LET capital_at_risk ==
            RMul(RDiv(RAbs(loss_5th), R(100)), starting_capital)
        max_loss_dollars ==
            RMul(RDiv(max_tolerable_loss_pct, R(100)), starting_capital)
        recommended_position ==
            IF RGt(RAbs(loss_5th), R(0))
            THEN PyMin(RMul(RDiv(max_loss_dollars, RAbs(loss_5th)), R(100)),
                       starting_capital)
            ELSE starting_capital
        position_pct == RMul(RDiv(recommended_position, starting_capital), R(100))
    IN  [loss_5th |-> loss_5th,
         starting_capital |-> starting_capital,
         max_tolerable_loss_pct |-> max_tolerable_loss_pct,
         recommended_position |-> recommended_position,
         position_pct |-> position_pct,
         cash_pct |-> RSub(R(100), position_pct)]

\* 5th-percentile returns, capitals and tolerances the sizer is tried on; the
\* percentile of a NaN grid is NaN
LossValues == {Q(-50, 1), Q(-25, 1), Q(-20, 1), Q(-25, 2), Q(-1, 3), Q(0, 1),
               Q(1, 2), Q(10, 1), Q(25, 1), Q(40, 1), NaN}
CapitalValues == {R(100000), R(50000), R(1)}
ToleranceValues == {R(0), R(5), R(20), R(25), R(100)}

SizePosition ==
    \E loss_5th \in LossValues, starting_capital \in CapitalValues,
       max_tolerable_loss_pct \in ToleranceValues :
        /\ sizing' = <<PlotPositionSizing(loss_5th, starting_capital,
                                          max_tolerable_loss_pct)>>
        /\ UNCHANGED <<simVars, summaryVars, calibVars, screenVars, engineVars>>

SizerInit == sizing = None

-----------------------------------------------------------------------------
(* Process-wide random generator.  np.random is abstracted to a generator  *)
(* over RngModulus states: seeding fixes the state, every draw advances it *)
(* and the value drawn is a function of the state alone.                   *)

RngModulus == 16

SEED == 42

RngSeed(seed) == seed % RngModulus

RngNext(s) == (5 * s + 3) % RngModulus

RECURSIVE RngAdvance(_, _)
RngAdvance(s, k) == IF k = 0 THEN s ELSE RngAdvance(RngNext(s), k - 1)

\* the k-th standard-normal draw (k >= 1) after the generator was in state s
StandardNormal(s, k) == R((RngAdvance(s, k) % 3) - 1)

\* a consumer of the process-wide generator other than the engine
\* (the demo's unseeded np.random.standard_normal calls)
OtherConsumer ==
    /\ rng_state' = RngNext(rng_state)
    /\ UNCHANGED <<sim, runs, numpy_empty, sim_args, sizerVars, summaryVars, calibVars, screenVars, engineVars>>

-----------------------------------------------------------------------------
(* Correlated path simulator: run_monte_carlo.                             *)
(* An annualized volatility c*sqrt(252) is represented by its daily        *)
(* coefficient c, so that volatility / np.sqrt(252) is c.                  *)

\* np.sqrt on the values the model meets: NaN below zero, exact on squares
RSqrt(a) ==
    IF IsNaN(a) \/ a[1] < 0 THEN NaN
    ELSE IF IsInf(a) THEN a
    ELSE LET rn == CHOOSE r \in 0..a[1] : r * r = a[1]
             rd == CHOOSE r \in 1..a[2] : r * r = a[2]
         IN  Q(rn, rd)

DailyVol(volatility) == volatility.sqrt252

\* returns added up instead of compounded: row t is 1 + the sum of rows 1..t
RECURSIVE CumProdAdditive(_, _, _)
CumProdAdditive(daily_returns, t, p) ==
    IF t = 1 THEN RAdd(R(1), daily_returns[1][p])
    ELSE RAdd(CumProdAdditive(daily_returns, t - 1, p), daily_returns[t][p])

\* np.cumprod(1 + daily_returns, axis=0): row t is the product of rows 1..t
RECURSIVE CumProd(_, _, _)
CumProd(daily_returns, t, p) ==
    IF t = 1 THEN RAdd(R(1), daily_returns[1][p])
    ELSE RMul(CumProd(daily_returns, t - 1, p), RAdd(R(1), daily_returns[t][p]))

\* the body of run_monte_carlo after its first statement: the draws start
\* from generator state s0.  The result also records the function's locals
\* z1, z2 and the two grids of daily returns.
run_monte_carlo_from(s0, stock_price, benchmark_price, stats, days_to_simulate, num_simulations) ==
    LET D == days_to_simulate
        P == num_simulations
        z1 == [t \in 1..D |-> [p \in 1..P |-> StandardNormal(s0, (t - 1) * P + p)]]
        z2 == [t \in 1..D |-> [p \in 1..P |->
                  StandardNormal(s0, D * P + (t - 1) * P + p)]]
        rho == stats.correlation
        orth == RSqrt(RSub(R(1), RMul(rho, rho)))
        benchmark_daily_returns ==
            [t \in 1..D |-> [p \in 1..P |->
                RAdd(RDiv(stats.benchmark_expected_return, R(252)),
                     RMul(DailyVol(stats.benchmark_volatility), z1[t][p]))]]
        stock_daily_returns ==
            [t \in 1..D |-> [p \in 1..P |->
                RAdd(RDiv(stats.stock_expected_return, R(252)),
                     RMul(DailyVol(stats.stock_volatility),
                          RAdd(RMul(rho, z1[t][p]), RMul(orth, z2[t][p]))))]]
        stock_paths ==
            [t \in 1..D |-> [p \in 1..P |->
                RMul(stock_price, CumProd(stock_daily_returns, t, p))]]
        benchmark_paths ==
            [t \in 1..D |-> [p \in 1..P |->
                RMul(benchmark_price, CumProd(benchmark_daily_returns, t, p))]]
        stock_final_prices == stock_paths[D]
        benchmark_final_prices == benchmark_paths[D]
        FinalReturns(final_prices, price) ==
            [p \in 1..P |->
                RMul(RSub(RDiv(final_prices[p], price), R(1)), R(100))]
    IN  IF D < 0 \/ P < 0
        THEN \* np.random.standard_normal: negative dimensions are not allowed
             [raised |-> "ValueError"]
        ELSE IF D = 0
        THEN \* stock_paths[-1] on a grid without rows
             [raised |-> "IndexError"]
        ELSE [raised |-> "",
              warnings |->
                  (IF P > 0 /\ IsNaN(orth) THEN {"RuntimeWarning"} ELSE {})
                  \cup (IF P > 0 /\ (stock_price = R(0) \/ benchmark_price = R(0))
                        THEN {"RuntimeWarning"} ELSE {}),
              z1 |-> z1,
              z2 |-> z2,
              benchmark_daily_returns |-> benchmark_daily_returns,
              stock_daily_returns |-> stock_daily_returns,
              stock_paths |-> stock_paths,
              benchmark_paths |-> benchmark_paths,
              stock_final_returns |-> FinalReturns(stock_final_prices, stock_price),
              benchmark_final_returns |->
                  FinalReturns(benchmark_final_prices, benchmark_price)]

\* the generator is not seeded: the draws continue from the state s
run_monte_carlo_unseeded(s, stock_price, benchmark_price, stats, days_to_simulate, num_simulations) ==
    run_monte_carlo_from(s, stock_price, benchmark_price, stats,
                         days_to_simulate, num_simulations)

\* the starting price is stored as a first row ahead of the simulated days
run_monte_carlo_start_row(s, stock_price, benchmark_price, stats, days_to_simulate, num_simulations) ==
    LET r == run_monte_carlo_from(RngSeed(SEED), stock_price, benchmark_price,
                                  stats, days_to_simulate, num_simulations)
    IN  IF r.raised # "" THEN r
        ELSE [r EXCEPT
                !.stock_paths =
                    <<[p \in 1..num_simulations |-> stock_price]>> \o @,
                !.benchmark_paths =
                    <<[p \in 1..num_simulations |-> benchmark_price]>> \o @]

\* the benchmark driven by draws of its own, taken after z1 and z2, instead
\* of the z1 that enters the stock's shock
run_monte_carlo_unpaired(s, stock_price, benchmark_price, stats, days_to_simulate, num_simulations) ==
    LET a == run_monte_carlo_from(RngSeed(SEED), stock_price, benchmark_price,
                                  stats, days_to_simulate, num_simulations)
        b == run_monte_carlo_from(
                 RngAdvance(RngSeed(SEED), 2 * days_to_simulate * num_simulations),
                 stock_price, benchmark_price, stats,
                 days_to_simulate, num_simulations)
    IN  IF a.raised # "" THEN a
        ELSE [a EXCEPT
                !.benchmark_daily_returns = b.benchmark_daily_returns,
                !.benchmark_paths = b.benchmark_paths,
                !.benchmark_final_returns = b.benchmark_final_returns]

\* run_monte_carlo entered with the generator in state s: np.random.seed(42)
\* comes first, whatever s was
run_monte_carlo(s, stock_price, benchmark_price, stats, days_to_simulate, num_simulations) ==
    run_monte_carlo_from(RngSeed(SEED), stock_price, benchmark_price, stats,
                         days_to_simulate, num_simulations)

\* generator state run_monte_carlo leaves behind
RngAfterRun(s, days_to_simulate, num_simulations) ==
    IF days_to_simulate < 0 \/ num_simulations < 0
    THEN RngSeed(SEED)
    ELSE RngAdvance(RngSeed(SEED), 2 * days_to_simulate * num_simulations)

-----------------------------------------------------------------------------
(* Distribution summarizer: calculate_percentiles.                         *)

percentiles == <<1, 5, 10, 25, 50, 75, 90, 95, 99>>

\* np.percentile(a, q) for one q on a non-empty array without NaN:
\* linear interpolation between the order statistics around q/100*(n-1)
Interpolate(sorted, q) ==
    LET n == Len(sorted)
        k == (q * (n - 1)) \div 100
        f == Q((q * (n - 1)) % 100, 100)
        lo == sorted[k + 1]
        hi == sorted[IF k + 2 <= n THEN k + 2 ELSE n]
    IN  RAdd(lo, RMul(f, RSub(hi, lo)))

\* np.percentile(a, percentiles); a is a function on 1..n
NpPercentile(a, qs) ==
    LET n == Len(a)
    IN  IF \E p \in 1..n : IsNaN(a[p])
        THEN [j \in 1..Len(qs) |-> NaN]
        ELSE LET sorted == SortSeq(a, RLt)
             IN  [j \in 1..Len(qs) |-> Interpolate(sorted, qs[j])]

\* calculate_percentiles(stock_final_returns, benchmark_final_returns,
\*                       stock_final_prices, benchmark_final_prices);
\* a price argument of None leaves the price column out
calculate_percentiles(stock_final_returns, benchmark_final_returns, stock_final_prices, benchmark_final_prices) ==
    LET Table(returns, prices) ==
            IF prices = None
            THEN [percentile |-> percentiles,
                  return |-> NpPercentile(returns, percentiles)]
            ELSE [percentile |-> percentiles,
                  return |-> NpPercentile(returns, percentiles),
                  price |-> NpPercentile(prices, percentiles)]
    IN  IF Len(stock_final_returns) = 0 /\ numpy_empty = "IndexError"
        THEN [raised |-> "IndexError"]
        ELSE IF Len(stock_final_returns) = 0
        THEN [raised |-> "",
              stock_percentiles |->
                  [percentile |-> percentiles,
                   return |-> [j \in 1..Len(percentiles) |-> NaN]],
              benchmark_percentiles |->
                  [percentile |-> percentiles,
                   return |-> [j \in 1..Len(percentiles) |-> NaN]]]
        ELSE [raised |-> "",
              stock_percentiles |-> Table(stock_final_returns, stock_final_prices),
              benchmark_percentiles |->
                  Table(benchmark_final_returns, benchmark_final_prices)]

-----------------------------------------------------------------------------
(* The engine's constructor, simulate and summarize stages.                *)

MaxRuns == 2

RhoValues == {R(-1), R(0), Q(3, 5), R(1), Q(5, 4), Q(-5, 4)}

StatsValues ==
    {[stock_expected_return |-> Q(126, 5),
      benchmark_expected_return |-> Q(63, 5),
      stock_volatility |-> [sqrt252 |-> v[1]],
      benchmark_volatility |-> [sqrt252 |-> v[2]],
      correlation |-> rho] :
        v \in {<<Q(1, 10), Q(1, 20)>>, <<R(0), R(0)>>}, rho \in RhoValues}

\* the last close of the downloaded data and the custom prices a caller passes
LastCloseValues == [stock : {R(100)}, benchmark : {R(50)}]

CustomStockPriceValues == {None, <<R(0)>>, <<R(-5)>>}

CustomBenchmarkPriceValues == {None, <<R(0)>>}

DaysValues == {-1, 0, 1, 2}

PathValues == {-1, 0, 1, 2}

SimArgs ==
    [last_close : LastCloseValues,
     custom_stock_price : CustomStockPriceValues,
     custom_benchmark_price : CustomBenchmarkPriceValues,
     stats : StatsValues,
     days_to_simulate : DaysValues,
     num_simulations : PathValues]

\* set_starting_prices: the custom price when one is given, else the last close
set_starting_prices(last_close, custom_stock_price, custom_benchmark_price) ==
    [stock_price |-> IF custom_stock_price # None THEN custom_stock_price[1]
                     ELSE last_close.stock,
     benchmark_price |-> IF custom_benchmark_price # None
                         THEN custom_benchmark_price[1]
                         ELSE last_close.benchmark]

\* self.stock_price, self.benchmark_price of the engine under construction
StartingPrices ==
    set_starting_prices(sim_args.last_close, sim_args.custom_stock_price,
                        sim_args.custom_benchmark_price)

\* self._run_monte_carlo() / run_monte_carlo(...) in __init__; an exception
\* leaves __init__ and ends the run
RunMonteCarlo ==
    /\ sim = None
    /\ Len(runs) < MaxRuns
    /\ LET result == run_monte_carlo(rng_state, StartingPrices.stock_price,
                                     StartingPrices.benchmark_price,
                                     sim_args.stats,
                                     sim_args.days_to_simulate,
                                     sim_args.num_simulations)
       IN  IF result.raised # ""
           THEN /\ runs' = Append(runs, [args |-> sim_args,
                                         raised |-> result.raised])
                /\ sim' = None
           ELSE /\ sim' = <<result>>
                /\ runs' = runs
    /\ rng_state' = RngAfterRun(rng_state, sim_args.days_to_simulate,
                                sim_args.num_simulations)
    /\ UNCHANGED <<numpy_empty, sim_args, sizerVars, summaryVars, calibVars, screenVars, engineVars>>

\* calculate_percentiles(self.stock_final_returns, self.benchmark_final_returns)
\* in __init__, which then returns
CalculatePercentiles ==
    /\ sim # None
    /\ LET tables == calculate_percentiles(sim[1].stock_final_returns,
                                           sim[1].benchmark_final_returns,
                                           None, None)
       IN  /\ runs' = Append(runs,
                 IF tables.raised # ""
                 THEN [args |-> sim_args, raised |-> tables.raised]
                 ELSE [args |-> sim_args, raised |-> "", sim |-> sim[1],
                       stock_percentiles |-> tables.stock_percentiles,
                       benchmark_percentiles |-> tables.benchmark_percentiles])
           /\ sim' = None
    /\ UNCHANGED <<rng_state, numpy_empty, sim_args,
                   sizerVars, summaryVars, calibVars, screenVars, engineVars>>

SimInit ==
    /\ rng_state \in 0..(RngModulus - 1)
    /\ sim = None
    /\ runs = << >>
    /\ numpy_empty \in {"nan", "IndexError"}
    /\ sim_args \in SimArgs

-----------------------------------------------------------------------------
(* Statistics calibrator: calculate_statistics.                            *)
(* A 'Close' column is a sequence of <<date, close>> rows in date order.   *)
(* A standard deviation is kept as the radical [sqrt_of |-> variance], a   *)
(* correlation as the signed radical [sign, sqrt_of], both exact.          *)

MaxDates == 3

MaxWindow == 4

CloseValues == {R(100), R(200)}

\* series.iloc[-n:]
ILocLast(series, n) ==
    IF n = 0 \/ n >= Len(series) THEN series
    ELSE SubSeq(series, Len(series) - n + 1, Len(series))

\* series.pct_change().dropna(): the first row has no previous close
PctChange(series) ==
    [k \in 1..(IF Len(series) = 0 THEN 0 ELSE Len(series) - 1) |->
        <<series[k + 1][1],
          RSub(RDiv(series[k + 1][2], series[k][2]), R(1))>>]

DatesOf(series) == {series[k][1] : k \in 1..Len(series)}

ValueAt(series, date) ==
    series[CHOOSE k \in 1..Len(series) : series[k][1] = date][2]

\* the k-th smallest element of a finite set of dates
RECURSIVE KthSmallest(_, _)
KthSmallest(S, k) ==
    LET m == CHOOSE x \in S : \A y \in S : x <= y
    IN  IF k = 1 THEN m ELSE KthSmallest(S \ {m}, k - 1)

\* a row for every date of the stock's returns, the benchmark's return NaN
\* where it has none
AlignOnStockDates(stock_returns, benchmark_returns) ==
    LET dates == DatesOf(stock_returns)
    IN  [k \in 1..Cardinality(dates) |->
            LET d == KthSmallest(dates, k)
            IN  [date |-> d,
                 stock |-> ValueAt(stock_returns, d),
                 benchmark |-> IF d \in DatesOf(benchmark_returns)
                               THEN ValueAt(benchmark_returns, d) ELSE NaN]]

\* pd.DataFrame({'stock': a, 'benchmark': b}).dropna(): the union of the two
\* indexes, then only the rows where both columns have a value
Align(stock_returns, benchmark_returns) ==
    LET common == DatesOf(stock_returns) \cap DatesOf(benchmark_returns)
    IN  [k \in 1..Cardinality(common) |->
            LET d == KthSmallest(common, k)
            IN  [date |-> d,
                 stock |-> ValueAt(stock_returns, d),
                 benchmark |-> ValueAt(benchmark_returns, d)]]

RECURSIVE RSum(_, _)
RSum(xs, n) == IF n = 0 THEN R(0) ELSE RAdd(RSum(xs, n - 1), xs[n])

\* Series.mean(): NaN on an empty series
Mean(xs) == IF Len(xs) = 0 THEN NaN ELSE RDiv(RSum(xs, Len(xs)), R(Len(xs)))

\* Series.cov(other), ddof = 1: NaN below two observations
Cov(xs, ys) ==
    IF Len(xs) < 2 THEN NaN
    ELSE LET mx == Mean(xs)
             my == Mean(ys)
             prod == [k \in 1..Len(xs) |->
                         RMul(RSub(xs[k], mx), RSub(ys[k], my))]
         IN  RDiv(RSum(prod, Len(xs)), R(Len(xs) - 1))

\* Series.var(), ddof = 1
Var(xs) == Cov(xs, xs)

\* Series.std()
Std(xs) == [sqrt_of |-> Var(xs)]

\* Series.corr(other): cov / (std * std), NaN when a variance is zero or NaN
Corr(xs, ys) ==
    LET c == Cov(xs, ys)
    IN  [sign |-> Sign(c[1]),
         sqrt_of |-> RDiv(RMul(c, c), RMul(Var(xs), Var(ys)))]

Column(aligned, name) == [k \in 1..Len(aligned) |-> aligned[k][name]]

calculate_statistics(stock_close, benchmark_close, historical_window) ==
    LET stock_prices == ILocLast(stock_close, historical_window)
        benchmark_prices == ILocLast(benchmark_close, historical_window)
        stock_returns == PctChange(stock_prices)
        benchmark_returns == PctChange(benchmark_prices)
        aligned == Align(stock_returns, benchmark_returns)
        stock == Column(aligned, "stock")
        benchmark == Column(aligned, "benchmark")
        covariance == Cov(stock, benchmark)
        benchmark_variance == Var(benchmark)
    IN  [raised |-> "",
         stock_returns |-> stock_returns,
         benchmark_returns |-> benchmark_returns,
         aligned |-> aligned,
         benchmark_variance |-> benchmark_variance,
         stats |->
            [stock_volatility |-> [sqrt252 |-> Std(stock)],
             benchmark_volatility |-> [sqrt252 |-> Std(benchmark)],
             correlation |-> Corr(stock, benchmark),
             beta |-> RDiv(covariance, benchmark_variance),
             stock_expected_return |-> RMul(Mean(stock), R(252)),
             benchmark_expected_return |-> RMul(Mean(benchmark), R(252))]]

\* every non-empty 'Close' column over the dates 1..MaxDates
CloseSeries ==
    UNION {{[k \in 1..Cardinality(S) |-> <<KthSmallest(S, k), f[KthSmallest(S, k)]>>] :
              f \in [S -> CloseValues]} :
           S \in (SUBSET (1..MaxDates)) \ {{}}}

CalculateStatistics ==
    /\ calib.out = None
    /\ calib' = [calib EXCEPT !.out =
                    <<calculate_statistics(calib.stock_close, calib.benchmark_close,
                                           calib.historical_window)>>]
    /\ UNCHANGED <<sizerVars, summaryVars, simVars, screenVars, engineVars>>

CalibInit ==
    calib \in [stock_close : CloseSeries,
               benchmark_close : CloseSeries,
               historical_window : 1..MaxWindow,
               out : {None}]

-----------------------------------------------------------------------------
(* Distribution summarizer called on arrays of terminal returns:           *)
(* calculate_cvar, and calculate_percentiles with and without the price    *)
(* columns.                                                                *)

\* returns[returns <= threshold]: a comparison with NaN selects nothing
TailAtOrBelow(returns, threshold) ==
    SelectSeq(returns, LAMBDA x : RLe(x, threshold))

\* the thresholds taken at the confidence levels themselves, the 95th and
\* the 99th percentile
calculate_cvar_upper_tail(returns, confidence_level) ==
    LET var_95 == IF Len(returns) = 0 THEN NaN
                  ELSE NpPercentile(returns, <<95>>)[1]
        var_99 == IF Len(returns) = 0 THEN NaN
                  ELSE NpPercentile(returns, <<99>>)[1]
    IN  IF Len(returns) = 0 /\ numpy_empty = "IndexError"
        THEN [raised |-> "IndexError"]
        ELSE [raised |-> "",
              warnings |->
                  IF \/ Len(TailAtOrBelow(returns, var_95)) = 0
                     \/ Len(TailAtOrBelow(returns, var_99)) = 0
                  THEN {"RuntimeWarning"} ELSE {},
              var_95 |-> var_95,
              cvar_95 |-> Mean(TailAtOrBelow(returns, var_95)),
              var_99 |-> var_99,
              cvar_99 |-> Mean(TailAtOrBelow(returns, var_99))]

calculate_cvar_at_level(returns, confidence_level) ==
    LET tail == IF confidence_level = Q(95, 100) THEN 5 ELSE 1
        var_95 == IF Len(returns) = 0 THEN NaN
                  ELSE NpPercentile(returns, <<tail>>)[1]
        var_99 == IF Len(returns) = 0 THEN NaN
                  ELSE NpPercentile(returns, <<1>>)[1]
    IN  IF Len(returns) = 0 /\ numpy_empty = "IndexError"
        THEN [raised |-> "IndexError"]
        ELSE [raised |-> "",
              warnings |->
                  IF \/ Len(TailAtOrBelow(returns, var_95)) = 0
                     \/ Len(TailAtOrBelow(returns, var_99)) = 0
                  THEN {"RuntimeWarning"} ELSE {},
              var_95 |-> var_95,
              cvar_95 |-> Mean(TailAtOrBelow(returns, var_95)),
              var_99 |-> var_99,
              cvar_99 |-> Mean(TailAtOrBelow(returns, var_99))]

\* calculate_cvar(returns, confidence_level); the mean of an empty selection
\* is NaN with a RuntimeWarning.  confidence_level is never read.
calculate_cvar(returns, confidence_level) ==
    LET var_95 == IF Len(returns) = 0 THEN NaN
                  ELSE NpPercentile(returns, <<5>>)[1]
        var_99 == IF Len(returns) = 0 THEN NaN
                  ELSE NpPercentile(returns, <<1>>)[1]
        cvar_95 == Mean(TailAtOrBelow(returns, var_95))
        cvar_99 == Mean(TailAtOrBelow(returns, var_99))
    IN  IF Len(returns) = 0 /\ numpy_empty = "IndexError"
        THEN [raised |-> "IndexError"]
        ELSE [raised |-> "",
              warnings |->
                  IF \/ Len(TailAtOrBelow(returns, var_95)) = 0
                     \/ Len(TailAtOrBelow(returns, var_99)) = 0
                  THEN {"RuntimeWarning"} ELSE {},
              var_95 |-> var_95,
              cvar_95 |-> cvar_95,
              var_99 |-> var_99,
              cvar_99 |-> cvar_99]

MaxReturns == 3

\* terminal returns in percent; NaN is what the simulator returns in every
\* cell for a correlation outside [-1, 1] or a NaN correlation
ReturnValues == {R(-30), R(-10), R(20), NaN}

BenchmarkReturnValues == {R(-10), R(20)}

ConfidenceLevelValues == {Q(95, 100), Q(99, 100)}

\* the terminal prices a starting price and terminal returns stand for:
\* return = (price / start - 1) * 100
FinalPrices(returns, price) ==
    [p \in 1..Len(returns) |->
        RMul(price, RAdd(R(1), RDiv(returns[p], R(100))))]

\* calculate_percentiles as the split engine calls it (returns only) and as
\* the monolithic engine's _calculate_percentiles computes it (with prices)
SummarizePercentiles ==
    /\ summary.tables = None
    /\ summary' = [summary EXCEPT !.tables =
          <<IF summary.with_prices
            THEN calculate_percentiles(
                     summary.stock_final_returns,
                     summary.benchmark_final_returns,
                     FinalPrices(summary.stock_final_returns, R(100)),
                     FinalPrices(summary.benchmark_final_returns, R(50)))
            ELSE calculate_percentiles(summary.stock_final_returns,
                                       summary.benchmark_final_returns,
                                       None, None)>>]
    /\ UNCHANGED <<sizerVars, simVars, calibVars, screenVars, engineVars>>

CalculateCvar ==
    /\ summary.cvar = None
    /\ summary' = [summary EXCEPT !.cvar =
          <<calculate_cvar(summary.stock_final_returns,
                           summary.confidence_level)>>]
    /\ UNCHANGED <<sizerVars, simVars, calibVars, screenVars, engineVars>>

SummaryInit ==
    \E n \in 1..MaxReturns :
        summary \in [stock_final_returns : [1..n -> ReturnValues],
                     benchmark_final_returns : [1..n -> BenchmarkReturnValues],
                     with_prices : BOOLEAN,
                     confidence_level : ConfidenceLevelValues,
                     tables : {None},
                     cvar : {None}]

-----------------------------------------------------------------------------
(* One engine object: MonteCarloRiskEngine.__init__ followed by the        *)
(* caller's run_full_analysis, for the split-module engine and for the     *)
(* monolithic one.  The numbers the simulate stage receives as statistics  *)
(* are sim_args.stats; the calibrate stage's own output keeps its radicals *)
(* symbolic and is recorded beside them.                                   *)

EngineVariants == {"split", "monolithic"}

\* the attributes __init__ has set on self before the download
InitialAttributes(variant) ==
    {"stock_symbol", "benchmark_symbol", "starting_capital", "days_to_simulate",
     "num_simulations", "historical_window", "max_tolerable_loss_pct"}
    \cup (IF variant = "monolithic"
          THEN {"custom_stock_price", "custom_benchmark_price"} ELSE {})

\* getattr(self, 'custom_stock_price', None) of the split engine,
\* self.custom_stock_price of the monolithic one
CustomStockPriceAttribute ==
    IF "custom_stock_price" \in engine.attrs
    THEN sim_args.custom_stock_price ELSE None

\* the filename chosen at the end of the visualization
FilenameForm(custom_stock_price) ==
    IF custom_stock_price # None THEN "monte_carlo_SYMBOL_BACKTEST_TIMESTAMP.png"
    ELSE "monte_carlo_SYMBOL_TIMESTAMP.png"

EngineRaise(stage, error) ==
    [engine EXCEPT !.stages = Append(@, [stage |-> stage, outcome |-> "raised"]),
                   !.pc = "raised",
                   !.raised = error]

\* __init__ up to the starting prices: download_data, set_starting_prices
EngineDownload ==
    /\ engine.pc = "init"
    /\ engine' =
         IF ~engine.data_found
         THEN [engine EXCEPT !.attrs = InitialAttributes(engine.variant),
                             !.pc = "raised",
                             !.raised = "ValueError"]
         ELSE [engine EXCEPT
                 !.attrs = InitialAttributes(engine.variant)
                           \cup {"stock_data", "benchmark_data",
                                 "stock_price", "benchmark_price"},
                 !.pc = "calibrate"]
    /\ UNCHANGED <<sizerVars, simVars, summaryVars, calibVars, screenVars>>

\* stats = calculate_statistics(...) and the attributes copied from it
EngineCalibrate ==
    /\ engine.pc = "calibrate"
    /\ LET out == calculate_statistics(calib.stock_close, calib.benchmark_close,
                                       calib.historical_window)
       IN  engine' =
             IF out.raised # "" THEN EngineRaise("calibrate", out.raised)
             ELSE [engine EXCEPT
                     !.stages = Append(@, [stage |-> "calibrate",
                                           outcome |-> "returned"]),
                     !.stats = <<out.stats>>,
                     !.attrs = @ \cup {"stock_volatility", "benchmark_volatility",
                                       "correlation", "beta",
                                       "stock_expected_return",
                                       "benchmark_expected_return"},
                     !.pc = "simulate"]
    /\ UNCHANGED <<sizerVars, simVars, summaryVars, calibVars, screenVars>>

\* an exception of the simulation caught inside __init__, which then returns:
\* the caller holds an engine without simulation results
EngineSimulateCaught ==
    /\ engine.pc = "simulate"
    /\ LET result == run_monte_carlo(rng_state, StartingPrices.stock_price,
                                     StartingPrices.benchmark_price,
                                     sim_args.stats,
                                     sim_args.days_to_simulate,
                                     sim_args.num_simulations)
       IN  engine' =
             IF result.raised # ""
             THEN [EngineRaise("simulate", result.raised) EXCEPT !.handed = TRUE]
             ELSE [engine EXCEPT
                     !.stages = Append(@, [stage |-> "simulate",
                                           outcome |-> "returned"]),
                     !.sim_results = <<result>>,
                     !.attrs = @ \cup {"stock_paths", "benchmark_paths",
                                       "stock_final_returns",
                                       "benchmark_final_returns"},
                     !.pc = "summarize"]
    /\ rng_state' = RngAfterRun(rng_state, sim_args.days_to_simulate,
                                sim_args.num_simulations)
    /\ UNCHANGED <<sim, runs, numpy_empty, sim_args,
                   sizerVars, summaryVars, calibVars, screenVars>>

\* sim_results = run_monte_carlo(...) and the attributes copied from it
EngineSimulate ==
    /\ engine.pc = "simulate"
    /\ LET result == run_monte_carlo(rng_state, StartingPrices.stock_price,
                                     StartingPrices.benchmark_price,
                                     sim_args.stats,
                                     sim_args.days_to_simulate,
                                     sim_args.num_simulations)
       IN  engine' =
             IF result.raised # "" THEN EngineRaise("simulate", result.raised)
             ELSE [engine EXCEPT
                     !.stages = Append(@, [stage |-> "simulate",
                                           outcome |-> "returned"]),
                     !.sim_results = <<result>>,
                     !.attrs = @ \cup {"stock_paths", "benchmark_paths",
                                       "stock_final_returns",
                                       "benchmark_final_returns"},
                     !.pc = "summarize"]
    /\ rng_state' = RngAfterRun(rng_state, sim_args.days_to_simulate,
                                sim_args.num_simulations)
    /\ UNCHANGED <<sim, runs, numpy_empty, sim_args,
                   sizerVars, summaryVars, calibVars, screenVars>>

\* calculate_percentiles(...) / self._calculate_percentiles(); __init__ then
\* returns and the caller holds the engine
EngineSummarize ==
    /\ engine.pc = "summarize"
    /\ LET r == engine.sim_results[1]
           D == Len(r.stock_paths)
           tables ==
               IF engine.variant = "monolithic"
               THEN calculate_percentiles(r.stock_final_returns,
                                          r.benchmark_final_returns,
                                          r.stock_paths[D], r.benchmark_paths[D])
               ELSE calculate_percentiles(r.stock_final_returns,
                                          r.benchmark_final_returns, None, None)
       IN  engine' =
             IF tables.raised # "" THEN EngineRaise("summarize", tables.raised)
             ELSE [engine EXCEPT
                     !.stages = Append(@, [stage |-> "summarize",
                                           outcome |-> "returned"]),
                     !.tables = <<tables>>,
                     !.attrs = @ \cup {"stock_percentiles",
                                       "benchmark_percentiles"},
                     !.handed = TRUE,
                     !.pc = "constructed"]
    /\ UNCHANGED <<sizerVars, simVars, summaryVars, calibVars, screenVars>>

\* engine.run_full_analysis(): the plots ahead of the sizing table may fail,
\* then the sizing table is computed, then the figure is saved under the
\* chosen filename, which may fail as well
EngineRunFullAnalysis ==
    /\ engine.pc = "constructed"
    /\ \E outcome \in {"ok", "plot_raised", "save_raised"} :
         LET column == engine.tables[1].stock_percentiles
             loss_5th ==
                 column.return[CHOOSE j \in 1..Len(column.percentile) :
                                   column.percentile[j] = 5]
         IN  IF outcome = "plot_raised"
             THEN /\ engine' = [engine EXCEPT !.pc = "analysis_raised",
                                              !.raised = "Exception"]
                  /\ UNCHANGED sizing
             ELSE /\ sizing' = <<PlotPositionSizing(loss_5th,
                                     engine.starting_capital,
                                     engine.max_tolerable_loss_pct)>>
                  /\ engine' =
                       IF outcome = "save_raised"
                       THEN [engine EXCEPT
                               !.stages = Append(@, [stage |-> "size",
                                                     outcome |-> "returned"]),
                               !.pc = "analysis_raised",
                               !.raised = "Exception"]
                       ELSE [engine EXCEPT
                               !.stages = Append(@, [stage |-> "size",
                                                     outcome |-> "returned"]),
                               !.filename =
                                   <<FilenameForm(CustomStockPriceAttribute)>>,
                               !.pc = "analysed"]
    /\ UNCHANGED <<simVars, summaryVars, calibVars, screenVars>>

EngineRecords(variants, found) ==
    [variant : variants,
     data_found : found,
     starting_capital : {R(100000)},
     max_tolerable_loss_pct : {R(20)},
     pc : {"init"},
     stages : {<< >>},
     attrs : {{}},
     stats : {None},
     sim_results : {None},
     tables : {None},
     handed : {FALSE},
     raised : {""},
     filename : {None}]

\* the constructor arguments of one engine object, the generator as a fresh
\* process leaves it
EngineInit ==
    /\ engine \in EngineRecords(EngineVariants, BOOLEAN)
    /\ rng_state = 0
    /\ sim = None
    /\ runs = << >>
    /\ numpy_empty \in {"nan", "IndexError"}
    /\ sim_args \in SimArgs

EngineIdle == engine \in EngineRecords({"split"}, {TRUE})

-----------------------------------------------------------------------------
(* Hybrid screener: statistical_dislocation.py, risk_flags.py,             *)
(* excel_output.py and screener_main.py.  A ticker is its position in the  *)
(* ticker list.  Columns of a result that are only copied through (volume, *)
(* market_cap, pe, ...) are left out.                                      *)

MaxTickers == 3

\* config.SAVE_INTERVAL and config.SECTOR_CONCENTRATION_THRESHOLD, scaled
\* down to the length of the modelled ticker list
SAVE_INTERVAL == 2

SECTOR_CONCENTRATION_THRESHOLD == 2

HIGH_VOL_PERCENTILE == 75

Z_SCORE_OVERSOLD == Q(-4, 5)

Z_SCORE_OVERBOUGHT == Q(4, 5)

Sectors == {"Technology", "Energy"}

ZScoreValues == {R(-2), R(0), Q(4, 5)}

VolPercentileValues == {50, 80}

\* calculate_z_score_dislocation once the download and the rolling statistics
\* are in: failed is any of its three failure returns
calculate_z_score_dislocation(failed, z_score, vol_percentile) ==
    IF failed
    THEN [success |-> FALSE, z_score |-> None, signal |-> None]
    ELSE [success |-> TRUE,
          z_score |-> <<z_score>>,
          signal |-> IF RLe(z_score, Z_SCORE_OVERSOLD) THEN <<"LONG">>
                     ELSE IF RLe(Z_SCORE_OVERBOUGHT, z_score) THEN <<"SHORT">>
                     ELSE None,
          vol_percentile |-> vol_percentile]

\* check_dislocation_trigger: None, or <<the result>> when it carries a signal
check_dislocation_trigger(result) ==
    IF ~result.success THEN None
    ELSE IF result.signal # None THEN <<result>>
    ELSE None

\* the filters screen_single_stock calls, in call order, each with whether
\* the ticker got past it
FilterCalls(universe_passed, fundamental_passed, dislocation, regime_passed) ==
    LET dislocation_result == check_dislocation_trigger(dislocation)
        triggered == ~(dislocation_result = None
                       \/ ~dislocation_result[1].success
                       \/ dislocation_result[1].signal = None)
        step1 == <<[step |-> "passes_universe_filter",
                    passed |-> universe_passed]>>
        step2 == <<[step |-> "passes_fundamental_filter",
                    passed |-> fundamental_passed]>>
        step3 == <<[step |-> "check_dislocation_trigger",
                    passed |-> triggered]>>
        step4 == <<[step |-> "passes_regime_filter",
                    passed |-> regime_passed]>>
    IN  IF ~universe_passed THEN step1
        ELSE IF ~fundamental_passed THEN step1 \o step2
        ELSE IF ~triggered THEN step1 \o step2 \o step3
        ELSE step1 \o step2 \o step3 \o step4

screen_single_stock_regime_unchecked(ticker, universe_passed, sector, fundamental_passed, dislocation, regime_passed) ==
    LET dislocation_result == check_dislocation_trigger(dislocation)
    IN  IF ~universe_passed
        THEN [ticker |-> ticker, status |-> "filtered_universe"]
        ELSE IF ~fundamental_passed
        THEN [ticker |-> ticker, status |-> "filtered_fundamental"]
        ELSE IF dislocation_result = None \/ ~dislocation_result[1].success
        THEN [ticker |-> ticker, status |-> "no_dislocation"]
        ELSE IF dislocation_result[1].signal = None
        THEN [ticker |-> ticker, status |-> "no_signal"]
        ELSE [ticker |-> ticker,
              status |-> "SIGNAL",
              signal |-> dislocation_result[1].signal[1],
              sector |-> sector,
              z_score |-> dislocation_result[1].z_score[1],
              vol_percentile |-> dislocation_result[1].vol_percentile]

\* screen_single_stock, given what the filters and the detector answer
screen_single_stock(ticker, universe_passed, sector, fundamental_passed, dislocation, regime_passed) ==
    LET dislocation_result == check_dislocation_trigger(dislocation)
    IN  IF ~universe_passed
        THEN [ticker |-> ticker, status |-> "filtered_universe"]
        ELSE IF ~fundamental_passed
        THEN [ticker |-> ticker, status |-> "filtered_fundamental"]
        ELSE IF dislocation_result = None \/ ~dislocation_result[1].success
        THEN [ticker |-> ticker, status |-> "no_dislocation"]
        ELSE IF dislocation_result[1].signal = None
        THEN [ticker |-> ticker, status |-> "no_signal"]
        ELSE IF ~regime_passed
        THEN [ticker |-> ticker, status |-> "filtered_regime"]
        ELSE [ticker |-> ticker,
              status |-> "SIGNAL",
              signal |-> dislocation_result[1].signal[1],
              sector |-> sector,
              z_score |-> dislocation_result[1].z_score[1],
              vol_percentile |-> dislocation_result[1].vol_percentile]

\* Counter(df['sector'].values)[sector]
SectorCount(results, sector) ==
    Cardinality({k \in 1..Len(results) : results[k].sector = sector})

add_risk_flags_keep_existing(results) ==
    [k \in 1..Len(results) |->
        LET result == results[k]
            sector_count == SectorCount(results, result.sector)
            cluster == sector_count >= SECTOR_CONCENTRATION_THRESHOLD
            elevated == result.vol_percentile >= HIGH_VOL_PERCENTILE
        IN  result @@
            [cluster_risk |-> cluster,
             cluster_risk_note |->
                 IF cluster THEN <<sector_count, result.sector>> ELSE << >>,
             elevated_vol_regime |-> elevated,
             vol_regime_note |->
                 IF elevated THEN <<result.vol_percentile>> ELSE << >>]]

\* add_risk_flags: sets the four flag keys on every dict of the list, in place
add_risk_flags(results) ==
    [k \in 1..Len(results) |->
        LET result == results[k]
            sector_count == SectorCount(results, result.sector)
            cluster == sector_count >= SECTOR_CONCENTRATION_THRESHOLD
            elevated == result.vol_percentile >= HIGH_VOL_PERCENTILE
        IN  [cluster_risk |-> cluster,
             cluster_risk_note |->
                 IF cluster THEN <<sector_count, result.sector>> ELSE << >>,
             elevated_vol_regime |-> elevated,
             vol_regime_note |->
                 IF elevated THEN <<result.vol_percentile>> ELSE << >>]
            @@ result]

\* df.sort_values('z_score_abs', ascending=False): insert row k of the list
\* after the rows already placed whose |z| is not smaller
RECURSIVE SortByAbsZ(_, _)
SortByAbsZ(results, n) ==
    IF n = 0 THEN << >>
    ELSE LET placed == SortByAbsZ(results, n - 1)
             row == results[n]
             before == {k \in 1..Len(placed) :
                           ~RLt(RAbs(placed[k].z_score), RAbs(row.z_score))}
             at == Cardinality(before)
         IN  SubSeq(placed, 1, at) \o <<row>> \o SubSeq(placed, at + 1, Len(placed))

\* the rows write_results_to_excel puts in the main sheet
ExcelRows(results) == SortByAbsZ(results, Len(results))

StatusValues == {"filtered_universe", "filtered_fundamental", "no_dislocation",
                 "no_signal", "filtered_regime", "SIGNAL"}

CountStatusSignalOnly(counts, status) ==
    IF status = "SIGNAL" THEN [counts EXCEPT ![status] = @ + 1] ELSE counts

\* `filtered_counts[status] += 1`
CountStatus(counts, status) == [counts EXCEPT ![status] = @ + 1]

AutosaveDueEveryTicker(ticker, results) == results # << >>

\* `if i % config.SAVE_INTERVAL == 0 and RESULTS:`
AutosaveDue(ticker, results) == ticker % SAVE_INTERVAL = 0 /\ results # << >>

\* SIGINTs delivered to one run
MaxInterrupts == 1

\* The two places of screen_single_stock that run inside a bare `except:`:
\* the yfinance lookup of get_universe_data and the sector ETF download of
\* calculate_z_score_dislocation (taken with config.USE_SECTOR_RELATIVE on).
\* Every other point of the loop, the autosave's `except Exception`
\* included, lets SystemExit through.
BareExceptPoints == {"get_universe_data", "sector_download"}

InterruptPoints == {"main"} \cup BareExceptPoints

\* get_universe_data's fallback dict
FallbackSector == "Unknown"

\* signal_handler, run in the main thread at the interrupted point: flag and
\* write RESULTS when there are any (a failed write is caught and printed),
\* then sys.exit(0).  The SystemExit unwinds from the interrupted point; a
\* bare except there catches it and the function goes on with its fallback.
signal_handler ==
    /\ pc = "loop"
    /\ sigint.count < MaxInterrupts
    /\ \E point \in InterruptPoints, write_ok \in BOOLEAN :
        /\ point \in BareExceptPoints => i < MaxTickers
        /\ RESULTS' = IF RESULTS # << >> THEN add_risk_flags(RESULTS)
                      ELSE RESULTS
        /\ output_file' = IF RESULTS # << >> /\ write_ok
                          THEN ExcelRows(add_risk_flags(RESULTS))
                          ELSE output_file
        /\ pc' = IF point \in BareExceptPoints THEN pc ELSE "exited"
        /\ sigint' =
               [count |-> sigint.count + 1,
                handled |-> <<[at |-> i,
                               written |-> RESULTS # << >> /\ write_ok]>>,
                swallowed |-> IF point \in BareExceptPoints
                              THEN sigint.swallowed \cup {point}
                              ELSE sigint.swallowed,
                exit_status |-> IF point \in BareExceptPoints
                                THEN sigint.exit_status ELSE <<0>>]
    /\ UNCHANGED <<i, filtered_counts, screen_log, sizerVars, summaryVars, simVars, calibVars, engineVars>>

\* one iteration of main's for loop: screen the ticker, count it, collect a
\* signal, and autosave every SAVE_INTERVAL tickers.  A ticker whose lookup
\* swallowed an interrupt has passed the filters before that lookup and
\* carries the fallback sector.
LoopIteration ==
    /\ pc = "loop"
    /\ i < MaxTickers
    /\ \E universe_passed \in BOOLEAN, sector \in Sectors \cup {FallbackSector},
          fundamental_passed \in BOOLEAN, failed \in BOOLEAN,
          z_score \in ZScoreValues, vol_percentile \in VolPercentileValues,
          regime_passed \in BOOLEAN, write_ok \in BOOLEAN :
        LET ticker == i + 1
            dislocation ==
                calculate_z_score_dislocation(failed, z_score, vol_percentile)
            result == screen_single_stock(ticker, universe_passed, sector,
                                          fundamental_passed, dislocation,
                                          regime_passed)
            status == result.status
            appended == IF status = "SIGNAL" THEN Append(RESULTS, result)
                        ELSE RESULTS
            autosave == AutosaveDue(ticker, appended)
            reached == universe_passed /\ fundamental_passed
        IN  /\ sector = FallbackSector <=> "get_universe_data" \in sigint.swallowed
            /\ "get_universe_data" \in sigint.swallowed => universe_passed
            /\ "sector_download" \in sigint.swallowed => reached
            /\ i' = ticker
            /\ filtered_counts' = CountStatus(filtered_counts, status)
            /\ RESULTS' = IF autosave THEN add_risk_flags(appended) ELSE appended
            /\ output_file' = IF autosave /\ write_ok
                              THEN ExcelRows(add_risk_flags(appended))
                              ELSE output_file
            /\ screen_log' = Append(screen_log,
                   [ticker |-> ticker, status |-> status,
                    calls |-> FilterCalls(universe_passed, fundamental_passed,
                                          dislocation, regime_passed),
                    dislocation_ran |-> reached,
                    dislocation_success |-> reached /\ dislocation.success,
                    dislocation_signal |->
                        IF reached THEN dislocation.signal ELSE None,
                    autosaved |-> autosave, write_ok |-> autosave /\ write_ok])
    /\ pc' = pc
    /\ sigint' = [sigint EXCEPT !.swallowed = {}]
    /\ UNCHANGED <<sizerVars, summaryVars, simVars, calibVars, engineVars>>

\* main after the loop: the funnel report, then the final flags and workbook
FinalOutput ==
    /\ pc = "loop"
    /\ i = MaxTickers
    /\ \E write_ok \in BOOLEAN :
        IF RESULTS = << >>
        THEN /\ pc' = "done"
             /\ UNCHANGED <<RESULTS, output_file>>
        ELSE /\ RESULTS' = add_risk_flags(RESULTS)
             /\ output_file' = IF write_ok THEN ExcelRows(add_risk_flags(RESULTS))
                               ELSE output_file
             /\ pc' = IF write_ok THEN "done" ELSE "failed"
    /\ UNCHANGED <<i, filtered_counts, screen_log, sigint, sizerVars, summaryVars, simVars, calibVars, engineVars>>

ScreenInit ==
    /\ i = 0
    /\ RESULTS = << >>
    /\ filtered_counts = [st \in StatusValues |-> 0]
    /\ output_file = << >>
    /\ screen_log = << >>
    /\ pc = "loop"
    /\ sigint = [count |-> 0, handled |-> None, swallowed |-> {},
                 exit_status |-> None]

-----------------------------------------------------------------------------
(* Specifications: one per component; the other components stay idle.      *)

SimIdle ==
    /\ rng_state = 0
    /\ sim = None
    /\ runs = << >>
    /\ numpy_empty = "nan"
    /\ sim_args = [last_close |-> [stock |-> R(100), benchmark |-> R(50)],
                   custom_stock_price |-> None, custom_benchmark_price |-> None,
                   stats |-> CHOOSE st \in StatsValues :
                                /\ st.correlation = Q(3, 5)
                                /\ st.stock_volatility.sqrt252 = Q(1, 10),
                   days_to_simulate |-> 1, num_simulations |-> 1]

SummaryIdle ==
    summary = [stock_final_returns |-> <<R(-10)>>,
               benchmark_final_returns |-> <<R(-10)>>,
               with_prices |-> FALSE,
               confidence_level |-> Q(95, 100),
               tables |-> None,
               cvar |-> None]

CalibIdle ==
    calib = [stock_close |-> <<<<1, R(100)>>>>,
             benchmark_close |-> <<<<1, R(100)>>>>,
             historical_window |-> 1, out |-> None]

SizerNext == SizePosition

SizerSpecInit == SizerInit /\ SimIdle /\ SummaryIdle /\ CalibIdle /\ ScreenInit
    /\ EngineIdle

SizerSpec == SizerSpecInit /\ [][SizerNext]_vars

SimNext == RunMonteCarlo \/ CalculatePercentiles \/ OtherConsumer

SimSpecInit == SizerInit /\ SimInit /\ SummaryIdle /\ CalibIdle /\ ScreenInit
    /\ EngineIdle

SimSpec == SimSpecInit /\ [][SimNext]_vars

CalibNext == CalculateStatistics

CalibSpecInit == SizerInit /\ SimIdle /\ SummaryIdle /\ CalibInit /\ ScreenInit
    /\ EngineIdle

CalibSpec == CalibSpecInit /\ [][CalibNext]_vars

SummaryNext == SummarizePercentiles \/ CalculateCvar

SummarySpecInit == SizerInit /\ SimIdle /\ SummaryInit /\ CalibIdle /\ ScreenInit
    /\ EngineIdle

SummarySpec == SummarySpecInit /\ [][SummaryNext]_vars

EngineNext ==
    \/ EngineDownload
    \/ EngineCalibrate
    \/ EngineSimulate
    \/ EngineSummarize
    \/ EngineRunFullAnalysis

EngineSpecInit ==
    SizerInit /\ EngineInit /\ SummaryIdle /\ CalibIdle /\ ScreenInit

EngineSpec == EngineSpecInit /\ [][EngineNext]_vars

ScreenNext == LoopIteration \/ FinalOutput

ScreenSpecInit == SizerInit /\ SimIdle /\ SummaryIdle /\ CalibIdle /\ ScreenInit
    /\ EngineIdle

ScreenSpec == ScreenSpecInit /\ [][ScreenNext]_vars

\* the screener with SIGINT delivered at any point of the loop
InterruptNext == LoopIteration \/ FinalOutput \/ signal_handler

InterruptSpecInit == SizerInit /\ SimIdle /\ SummaryIdle /\ CalibIdle /\ ScreenInit
    /\ EngineIdle

InterruptSpec == InterruptSpecInit /\ [][InterruptNext]_vars

-----------------------------------------------------------------------------
(* Properties.                                                             *)

MathMin(a, b) == IF RLe(a, b) THEN a ELSE b

NoNaNGrid(grid) ==
    \A t \in 1..Len(grid) : \A p \in 1..Len(grid[t]) : ~IsNaN(grid[t][p])

ValidSimArgs ==
    /\ sim_args.days_to_simulate >= 1
    /\ sim_args.num_simulations >= 1

C2_FullAllocationWhenNoLoss ==
    (sizing # None /\ RLe(R(0), sizing[1].loss_5th)) =>
        /\ sizing[1].recommended_position = sizing[1].starting_capital
        /\ sizing[1].position_pct = R(100)
        /\ sizing[1].cash_pct = R(0)

\* C3: for L < 0 the recommended capital is
\* min(starting_capital, (max_tolerable_loss_pct/100 * starting_capital) / (|L|/100)),
\* and 100000 / 20 / -25 gives 80000, 80% and 20%
C3_RecommendedCapitalFormula ==
    (sizing # None /\ RLt(sizing[1].loss_5th, R(0))) =>
        LET r == sizing[1]
        IN  /\ r.recommended_position =
                 MathMin(r.starting_capital,
                         RDiv(RMul(RDiv(r.max_tolerable_loss_pct, R(100)),
                                   r.starting_capital),
                              RDiv(RAbs(r.loss_5th), R(100))))
            /\ (/\ r.starting_capital = R(100000)
                /\ r.max_tolerable_loss_pct = R(20)
                /\ r.loss_5th = R(-25))
               => /\ r.recommended_position = R(80000)
                  /\ r.position_pct = R(80)
                  /\ r.cash_pct = R(20)

C3_Witness ==
    /\ sizing # None
    /\ sizing[1].starting_capital = R(100000)
    /\ sizing[1].max_tolerable_loss_pct = R(20)
    /\ sizing[1].loss_5th = R(-25)
    /\ sizing[1].recommended_position = R(80000)

\* C4: whenever the recommendation is below full allocation, the
\* 5th-percentile loss on the recommended position equals the tolerated loss
\* on total capital: recommended * |L|/100 = max_tolerable_loss_pct/100 * capital
C4_PositionLossEqualsTolerance ==
    (sizing # None
     /\ RLt(sizing[1].recommended_position, sizing[1].starting_capital)) =>
        RMul(sizing[1].recommended_position,
             RDiv(RAbs(sizing[1].loss_5th), R(100)))
        = RMul(RDiv(sizing[1].max_tolerable_loss_pct, R(100)),
               sizing[1].starting_capital)

C4_Witness ==
    /\ sizing # None
    /\ RLt(sizing[1].loss_5th, R(0))
    /\ RLt(R(0), sizing[1].max_tolerable_loss_pct)
    /\ RLt(sizing[1].recommended_position, sizing[1].starting_capital)
    /\ RLt(R(0), sizing[1].recommended_position)

\* C5: given a correlation with |rho| > 1 the simulator clamps it, emits an
\* InvalidCorrelationWarning and returns price grids without NaN
C5_ClampedCorrelation ==
    (sim # None /\ ValidSimArgs
     /\ RLt(R(1), RAbs(sim_args.stats.correlation))) =>
        /\ "InvalidCorrelationWarning" \in sim[1].warnings
        /\ NoNaNGrid(sim[1].stock_paths)
        /\ NoNaNGrid(sim[1].benchmark_paths)

\* C6: a non-positive path count, horizon or starting price (a custom price
\* included) is rejected with an error before any simulation result is
\* produced: no result is ever returned for it (whatever the error is called)
C6_ParametersRejected ==
    LET invalid ==
            \/ sim_args.num_simulations <= 0
            \/ sim_args.days_to_simulate <= 0
            \/ RLe(StartingPrices.stock_price, R(0))
            \/ RLe(StartingPrices.benchmark_price, R(0))
    IN  invalid =>
            /\ sim = None
            /\ \A k \in 1..Len(runs) : runs[k].raised # ""

\* C7: calculate_statistics fails with InsufficientDataError, returning no
\* statistics, when fewer than W days of overlapping data or fewer than two
\* aligned observations remain
C7_InsufficientDataRejected ==
    (calib.out # None
     /\ \/ Len(calib.out[1].aligned) < 2
        \/ Cardinality(DatesOf(calib.stock_close) \cap DatesOf(calib.benchmark_close))
             < calib.historical_window) =>
        calib.out[1].raised = "InsufficientDataError"

\* C8: a benchmark variance of exactly zero over the aligned window is
\* reported as DegenerateBenchmarkError, not as a numeric (inf or NaN) beta
C8_DegenerateBenchmarkRejected ==
    (calib.out # None /\ calib.out[1].benchmark_variance = R(0)) =>
        calib.out[1].raised = "DegenerateBenchmarkError"

\* C9: a ticker whose dislocation calculation failed is never recorded with
\* the same status as a ticker whose calculation succeeded without a signal
C9_FailureDistinctFromNoSignal ==
    \A a, b \in 1..Len(screen_log) :
        (/\ screen_log[a].dislocation_ran
         /\ ~screen_log[a].dislocation_success
         /\ screen_log[b].dislocation_ran
         /\ screen_log[b].dislocation_success
         /\ screen_log[b].dislocation_signal = None)
        => screen_log[a].status # screen_log[b].status

\* C10: two runs of the simulator with the same seed and the same inputs end
\* with the same percentile tables, whatever drew from the process-wide
\* generator before or between them
C10_Determinism ==
    \A j, k \in 1..Len(runs) :
        runs[j].args = runs[k].args =>
            /\ runs[j].raised = runs[k].raised
            /\ runs[j].raised = "" =>
                /\ runs[j].stock_percentiles = runs[k].stock_percentiles
                /\ runs[j].benchmark_percentiles = runs[k].benchmark_percentiles

C10_Witness ==
    /\ Len(runs) = 2
    /\ runs[1].raised = "" /\ runs[2].raised = ""
    /\ runs[1].args = runs[2].args
    /\ runs[1].args.num_simulations = 2
    /\ ~IsNaN(runs[2].stock_percentiles.return[1])
    /\ runs[2].stock_percentiles.return[1] # runs[2].stock_percentiles.return[9]

\* C11: the seed is supplied by the caller and a run of the simulator leaves
\* the process-wide generator in the state it found it in, so that later
\* draws from that generator are the same whether or not a simulation ran
C11_GeneratorStateRestored ==
    [][(RunMonteCarlo /\ ValidSimArgs /\ sim' # None)
         => rng_state' = rng_state]_vars

\* C12: CVaR never averages an empty set: for every non-empty array of
\* terminal returns the returns at or below the VaR threshold calculate_cvar
\* uses are at least one observation, at the 95 and at the 99 level
C12_TailNeverEmpty ==
    (summary.cvar # None /\ Len(summary.stock_final_returns) >= 1) =>
        /\ summary.cvar[1].raised = ""
        /\ Len(TailAtOrBelow(summary.stock_final_returns,
                             summary.cvar[1].var_95)) >= 1
        /\ Len(TailAtOrBelow(summary.stock_final_returns,
                             summary.cvar[1].var_99)) >= 1

\* the same for arrays without NaN, where the tail also holds the worst
\* observation
C12_TailHoldsWorstWithoutNaN ==
    (summary.cvar # None
     /\ \A p \in 1..Len(summary.stock_final_returns) :
            ~IsNaN(summary.stock_final_returns[p])) =>
        \A level \in {"var_95", "var_99"} :
            \E p \in 1..Len(summary.stock_final_returns) :
                /\ \A q \in 1..Len(summary.stock_final_returns) :
                       RLe(summary.stock_final_returns[p],
                           summary.stock_final_returns[q])
                /\ RLe(summary.stock_final_returns[p], summary.cvar[1][level])

\* C13: for every non-empty array of terminal returns cvar_95 <= var_95 and
\* cvar_99 <= var_99, and when the 5th percentile is negative
\* cvar_95 <= var_95 <= 0
C13_CvarAtMostVar ==
    (summary.cvar # None /\ Len(summary.stock_final_returns) >= 1) =>
        /\ summary.cvar[1].raised = ""
        /\ RLe(summary.cvar[1].cvar_95, summary.cvar[1].var_95)
        /\ RLe(summary.cvar[1].cvar_99, summary.cvar[1].var_99)
        /\ RLt(summary.cvar[1].var_95, R(0)) =>
              /\ RLe(summary.cvar[1].cvar_95, summary.cvar[1].var_95)
              /\ RLe(summary.cvar[1].var_95, R(0))

\* the same for arrays without NaN
C13_CvarAtMostVarWithoutNaN ==
    (summary.cvar # None
     /\ \A p \in 1..Len(summary.stock_final_returns) :
            ~IsNaN(summary.stock_final_returns[p])) =>
        /\ RLe(summary.cvar[1].cvar_95, summary.cvar[1].var_95)
        /\ RLe(summary.cvar[1].cvar_99, summary.cvar[1].var_99)

\* value(p1) <= value(p2) for all p1 < p2 of a percentile column
MonotoneColumn(column) ==
    \A a, b \in 1..Len(column) : a < b => RLe(column[a], column[b])

\* C14: in every percentile table calculate_percentiles produces, for the
\* instrument and for the benchmark, value(p1) <= value(p2) for all p1 < p2
\* in {1, 5, 10, 25, 50, 75, 90, 95, 99}
C14_PercentileMonotonicity ==
    \A k \in 1..Len(runs) :
        (runs[k].raised = "" /\ ValidSimArgs) =>
            /\ MonotoneColumn(runs[k].stock_percentiles.return)
            /\ MonotoneColumn(runs[k].benchmark_percentiles.return)

\* the same for the return and price columns computed from arrays without NaN
C14_MonotoneWithoutNaN ==
    (summary.tables # None
     /\ \A p \in 1..Len(summary.stock_final_returns) :
            ~IsNaN(summary.stock_final_returns[p])) =>
        /\ MonotoneColumn(summary.tables[1].stock_percentiles.return)
        /\ MonotoneColumn(summary.tables[1].benchmark_percentiles.return)
        /\ summary.with_prices =>
              /\ MonotoneColumn(summary.tables[1].stock_percentiles.price)
              /\ MonotoneColumn(summary.tables[1].benchmark_percentiles.price)

\* x[k] + f * (x[k+1] - x[k]) on the sorted returns x[0..n-1], with k the
\* integer part and f the fractional part of p/100 * (n-1); x[k] when f = 0
LinearInterpolation(returns, p) ==
    LET x == SortSeq(returns, RLt)
        n == Len(returns)
        k == (p * (n - 1)) \div 100
        f == Q((p * (n - 1)) % 100, 100)
    IN  IF f = R(0) THEN x[k + 1]
        ELSE RAdd(x[k + 1], RMul(f, RSub(x[k + 2], x[k + 1])))

InterpolatedColumn(column, returns) ==
    \A j \in 1..Len(percentiles) :
        /\ column[j] = LinearInterpolation(returns, percentiles[j])
        /\ \E lo, hi \in 1..Len(returns) :
              /\ \A q \in 1..Len(returns) :
                    RLe(returns[lo], returns[q]) /\ RLe(returns[q], returns[hi])
              /\ RLe(returns[lo], column[j])
              /\ RLe(column[j], returns[hi])

\* C15: each value of a percentile table is the linear interpolation
\* x[k] + f * (x[k+1] - x[k]) between the order statistics of the returns it
\* is computed from, hence lies between the minimum and the maximum return
C15_LinearInterpolation ==
    \A k \in 1..Len(runs) :
        (runs[k].raised = "" /\ ValidSimArgs) =>
            /\ InterpolatedColumn(runs[k].stock_percentiles.return,
                                  runs[k].sim.stock_final_returns)
            /\ InterpolatedColumn(runs[k].benchmark_percentiles.return,
                                  runs[k].sim.benchmark_final_returns)

\* the same for tables computed from arrays without NaN
C15_InterpolationWithoutNaN ==
    (summary.tables # None
     /\ \A p \in 1..Len(summary.stock_final_returns) :
            ~IsNaN(summary.stock_final_returns[p])) =>
        /\ InterpolatedColumn(summary.tables[1].stock_percentiles.return,
                              summary.stock_final_returns)
        /\ InterpolatedColumn(summary.tables[1].benchmark_percentiles.return,
                              summary.benchmark_final_returns)

\* the entry of a percentile column for percentile q
EntryAt(column, q) ==
    column[CHOOSE j \in 1..Len(percentiles) : percentiles[j] = q]

\* C16: VaR at confidence c is the (100-c)-th percentile of the terminal
\* returns: var_95 is the 5th-percentile entry and var_99 the 1st-percentile
\* entry of the percentile table computed from the same returns
C16_VarIsTableEntry ==
    (/\ summary.tables # None /\ summary.tables[1].raised = ""
     /\ summary.cvar # None /\ summary.cvar[1].raised = "") =>
        /\ summary.cvar[1].var_95 =
             EntryAt(summary.tables[1].stock_percentiles.return, 5)
        /\ summary.cvar[1].var_99 =
             EntryAt(summary.tables[1].stock_percentiles.return, 1)

C16_Witness ==
    /\ summary.tables # None
    /\ summary.cvar # None
    /\ summary.stock_final_returns = <<R(20), R(-30), R(-10)>>
    /\ summary.cvar[1].var_99 = Q(-148, 5)
    /\ summary.cvar[1].var_95 = R(-28)
    /\ EntryAt(summary.tables[1].stock_percentiles.return, 5) = R(-28)

\* price[t] = price[t-1] * (1 + r[t]) down every column of a grid, with
\* price[0] the starting price
Recurrence(paths, daily_returns, price) ==
    \A t \in 1..Len(paths) : \A p \in 1..Len(paths[t]) :
        paths[t][p] = RMul(IF t = 1 THEN price ELSE paths[t - 1][p],
                           RAdd(R(1), daily_returns[t][p]))

\* two columns of a grid with the same returns have the same prices
ColumnsDependOnOwnReturns(paths, daily_returns) ==
    \A p, q \in 1..(IF Len(paths) = 0 THEN 0 ELSE Len(paths[1])) :
        (\A t \in 1..Len(paths) : daily_returns[t][p] = daily_returns[t][q])
        => \A t \in 1..Len(paths) : paths[t][p] = paths[t][q]

\* C17: along every path column the price follows the recurrence
\* price[t] = price[t-1] * (1 + r[t]) for t = 1..D from the starting price,
\* with simple returns, and a column's prices depend only on that column's
\* returns
C17_MultiplicativeRecurrence ==
    sim # None =>
        /\ Recurrence(sim[1].stock_paths, sim[1].stock_daily_returns,
                      StartingPrices.stock_price)
        /\ Recurrence(sim[1].benchmark_paths, sim[1].benchmark_daily_returns,
                      StartingPrices.benchmark_price)
        /\ ColumnsDependOnOwnReturns(sim[1].stock_paths,
                                     sim[1].stock_daily_returns)
        /\ ColumnsDependOnOwnReturns(sim[1].benchmark_paths,
                                     sim[1].benchmark_daily_returns)

C17_Witness ==
    /\ sim # None
    /\ sim_args.days_to_simulate = 2
    /\ sim_args.num_simulations = 2
    /\ StartingPrices.stock_price = R(100)
    /\ NoNaNGrid(sim[1].stock_paths)
    /\ \E p \in 1..2 :
          /\ sim[1].stock_daily_returns[1][p] # R(0)
          /\ sim[1].stock_daily_returns[2][p] # R(0)
          /\ sim[1].stock_daily_returns[1][p] # sim[1].stock_daily_returns[2][p]
          /\ sim[1].stock_paths[2][p] # sim[1].stock_paths[1][p]
          /\ sim[1].stock_paths[2][p] # sim[1].stock_paths[2][3 - p]

\* mu/252 + sigma/sqrt(252) * shock
DailyReturn(expected_return, volatility, shock) ==
    RAdd(RDiv(expected_return, R(252)), RMul(DailyVol(volatility), shock))

\* C18: in every (step, path) cell the instrument's shock is
\* rho*z1 + sqrt(1 - rho^2)*z2 with the z1 that drives the benchmark's return
\* in that cell; for rho = 1 it is z1, for rho = -1 it is -z1 and for rho = 0
\* it is z2, which does not enter the benchmark's return
C18_PairedShocks ==
    sim # None =>
        LET st == sim_args.stats
            rho == st.correlation
        IN  \A t \in 1..Len(sim[1].stock_paths) :
            \A p \in 1..Len(sim[1].stock_paths[t]) :
                LET z1 == sim[1].z1[t][p]
                    z2 == sim[1].z2[t][p]
                    stock == sim[1].stock_daily_returns[t][p]
                IN  /\ sim[1].benchmark_daily_returns[t][p] =
                         DailyReturn(st.benchmark_expected_return,
                                     st.benchmark_volatility, z1)
                    /\ stock =
                         DailyReturn(st.stock_expected_return, st.stock_volatility,
                             RAdd(RMul(rho, z1),
                                  RMul(RSqrt(RSub(R(1), RMul(rho, rho))), z2)))
                    /\ rho = R(1) =>
                         stock = DailyReturn(st.stock_expected_return,
                                             st.stock_volatility, z1)
                    /\ rho = R(-1) =>
                         stock = DailyReturn(st.stock_expected_return,
                                             st.stock_volatility, RNeg(z1))
                    /\ rho = R(0) =>
                         stock = DailyReturn(st.stock_expected_return,
                                             st.stock_volatility, z2)

C18_Witness ==
    /\ sim # None
    /\ sim_args.stats.correlation = R(-1)
    /\ DailyVol(sim_args.stats.stock_volatility) = Q(1, 10)
    /\ sim_args.days_to_simulate = 2
    /\ sim_args.num_simulations = 2
    /\ \E t, p \in 1..2 :
          /\ sim[1].z1[t][p] = R(1)
          /\ sim[1].z2[t][p] = R(-1)
          /\ sim[1].benchmark_daily_returns[t][p] = Q(1, 10)
          /\ sim[1].stock_daily_returns[t][p] = R(0)

RECURSIVE RPow(_, _)
RPow(a, n) == IF n = 0 THEN R(1) ELSE RMul(RPow(a, n - 1), a)

\* every path of a grid ends at start * (1 + mu/252)^D
CompoundedDrift(paths, price, expected_return) ==
    \A p \in 1..Len(paths[Len(paths)]) :
        paths[Len(paths)][p] =
            RMul(price, RPow(RAdd(R(1), RDiv(expected_return, R(252))),
                             Len(paths)))

\* C19: with sigma = 0 for both assets every path of a grid has the same
\* terminal price, start * (1 + mu/252)^D, whatever the random draws and the
\* correlation are
C19_DegenerateVolatility ==
    (/\ sim # None /\ ValidSimArgs
     /\ DailyVol(sim_args.stats.stock_volatility) = R(0)
     /\ DailyVol(sim_args.stats.benchmark_volatility) = R(0)) =>
        /\ CompoundedDrift(sim[1].stock_paths, StartingPrices.stock_price,
                           sim_args.stats.stock_expected_return)
        /\ CompoundedDrift(sim[1].benchmark_paths,
                           StartingPrices.benchmark_price,
                           sim_args.stats.benchmark_expected_return)

\* the same for correlations within [-1, 1]
C19_DegenerateVolatilityWithinRange ==
    (/\ sim # None /\ ValidSimArgs
     /\ DailyVol(sim_args.stats.stock_volatility) = R(0)
     /\ DailyVol(sim_args.stats.benchmark_volatility) = R(0)
     /\ RLe(RAbs(sim_args.stats.correlation), R(1))) =>
        /\ CompoundedDrift(sim[1].stock_paths, StartingPrices.stock_price,
                           sim_args.stats.stock_expected_return)
        /\ CompoundedDrift(sim[1].benchmark_paths,
                           StartingPrices.benchmark_price,
                           sim_args.stats.benchmark_expected_return)

\* C20: the observations the statistics are computed from contain a date
\* exactly when both the instrument's and the benchmark's windowed return
\* series have a return for that date, and every observation pairs the two
\* returns of its date
C20_InnerJoin ==
    calib.out # None =>
        LET aligned == calib.out[1].aligned
            stock_returns == calib.out[1].stock_returns
            benchmark_returns == calib.out[1].benchmark_returns
        IN  /\ \A d \in 1..MaxDates :
                  (\E k \in 1..Len(aligned) : aligned[k].date = d)
                  <=> (/\ \E a \in 1..Len(stock_returns) :
                             stock_returns[a][1] = d
                       /\ \E b \in 1..Len(benchmark_returns) :
                             benchmark_returns[b][1] = d)
            /\ \A j, k \in 1..Len(aligned) :
                  aligned[j].date = aligned[k].date => j = k
            /\ \A k \in 1..Len(aligned) :
                  /\ \E a \in 1..Len(stock_returns) :
                        stock_returns[a] = <<aligned[k].date, aligned[k].stock>>
                  /\ \E b \in 1..Len(benchmark_returns) :
                        benchmark_returns[b] =
                            <<aligned[k].date, aligned[k].benchmark>>

C20_Witness ==
    /\ calib.out # None
    /\ calib.historical_window = 3
    /\ Len(calib.out[1].stock_returns) = 2
    /\ Len(calib.out[1].benchmark_returns) = 1
    /\ Len(calib.out[1].aligned) = 1
    /\ calib.out[1].aligned[1].date = 3
    /\ calib.out[1].aligned[1].stock = R(1)
    /\ calib.out[1].aligned[1].benchmark = Q(-1, 2)

StageOrder == <<"calibrate", "simulate", "summarize", "size">>

\* C21: in every engine run the stages execute in the order calibrate,
\* simulate, summarize, size, each only after the previous one returned; once
\* a stage raised no later stage runs, and the caller is handed an engine
\* only when calibrate, simulate and summarize all returned
C21_StageOrdering ==
    /\ Len(engine.stages) <= Len(StageOrder)
    /\ \A k \in 1..Len(engine.stages) :
          /\ engine.stages[k].stage = StageOrder[k]
          /\ engine.stages[k].outcome = "raised" => k = Len(engine.stages)
    /\ engine.handed =>
          /\ Len(engine.stages) >= 3
          /\ \A k \in 1..3 : engine.stages[k].outcome = "returned"
          /\ {"stock_volatility", "stock_paths", "stock_percentiles"}
                 \subseteq engine.attrs
    /\ (\E k \in 1..Len(engine.stages) : engine.stages[k].stage = "size")
          => engine.handed

C21_Witness ==
    /\ engine.pc = "raised"
    /\ Len(engine.stages) = 3
    /\ engine.stages[3] = [stage |-> "summarize", outcome |-> "raised"]
    /\ engine.sim_results # None
    /\ ~engine.handed
    /\ engine.filename = None

\* C23: once the SIGINT handler has run, the process has exited with status
\* 0 and no further ticker has been processed; when RESULTS was non-empty
\* and the write went through, the output file holds all of RESULTS.
C23_InterruptSavesAndExits ==
    sigint.handled # None =>
        /\ pc = "exited"
        /\ sigint.exit_status = <<0>>
        /\ i = sigint.handled[1].at
        /\ sigint.handled[1].written => output_file = ExcelRows(RESULTS)

\* the part of C23 that holds: an interrupt outside the bare except regions
C23_InterruptOutsideBareExcept ==
    pc = "exited" =>
        /\ sigint.handled # None
        /\ sigint.exit_status = <<0>>
        /\ i = sigint.handled[1].at
        /\ sigint.handled[1].written => output_file = ExcelRows(RESULTS)

\* the results a list held are all still in the later list, in their places
KeepsEveryResult(before, after) ==
    /\ Len(after) >= Len(before)
    /\ \A k \in 1..Len(before) :
          /\ after[k].ticker = before[k].ticker
          /\ after[k].signal = before[k].signal
          /\ after[k].sector = before[k].sector
          /\ after[k].z_score = before[k].z_score
          /\ after[k].vol_percentile = before[k].vol_percentile

\* C24: processing the i-th ticker autosaves exactly when i is a multiple of
\* SAVE_INTERVAL and RESULTS is non-empty; the save writes all of RESULTS
\* accumulated so far; a save that raises leaves the file alone, the loop
\* goes on, and RESULTS keeps every result it held.
C24_PeriodicCheckpoint ==
    [][i' = i + 1 =>
          LET due == i' % SAVE_INTERVAL = 0 /\ RESULTS' # << >>
              entry == screen_log'[i']
          IN  /\ entry.autosaved <=> due
              /\ entry.write_ok => due /\ output_file' = ExcelRows(RESULTS')
              /\ ~entry.write_ok => output_file' = output_file
              /\ pc' = "loop"
              /\ KeepsEveryResult(RESULTS, RESULTS')
              /\ Len(RESULTS') <= Len(RESULTS) + 1]_vars

C24_Witness ==
    /\ pc = "loop"
    /\ i = SAVE_INTERVAL
    /\ screen_log[i].autosaved
    /\ ~screen_log[i].write_ok
    /\ screen_log[i].status # "SIGNAL"
    /\ RESULTS # << >>
    /\ output_file = << >>

FilterOrder == <<"passes_universe_filter", "passes_fundamental_filter",
                 "check_dislocation_trigger", "passes_regime_filter">>

RejectionStatus == <<"filtered_universe", "filtered_fundamental",
                     "no_dislocation", "filtered_regime">>

RECURSIVE SumCounts(_, _)
SumCounts(counts, statuses) ==
    IF statuses = {} THEN 0
    ELSE LET st == CHOOSE x \in statuses : TRUE
         IN  counts[st] + SumCounts(counts, statuses \ {st})

\* C26: after every loop iteration the six filtered_counts sum to the number
\* of tickers processed, each count is the number of tickers returned with
\* that status, and filtered_counts['SIGNAL'] is the length of RESULTS.
C26_FunnelAccounting ==
    /\ DOMAIN filtered_counts = StatusValues
    /\ Cardinality(StatusValues) = 6
    /\ SumCounts(filtered_counts, StatusValues) = i
    /\ \A st \in StatusValues :
          filtered_counts[st] =
              Cardinality({k \in 1..Len(screen_log) : screen_log[k].status = st})
    /\ Len(screen_log) = i
    /\ filtered_counts["SIGNAL"] = Len(RESULTS)

\* each iteration increments exactly one count, by one
C26_OneCountPerTicker ==
    [][i' = i + 1 =>
          \E st \in StatusValues :
              /\ filtered_counts'[st] = filtered_counts[st] + 1
              /\ \A other \in StatusValues \ {st} :
                    filtered_counts'[other] = filtered_counts[other]]_vars

C26_Witness ==
    /\ i = 3
    /\ filtered_counts["SIGNAL"] = 2
    /\ filtered_counts["filtered_regime"] = 1
    /\ Len(RESULTS) = 2

\* every result's cluster_risk says whether its sector has reached the
\* concentration threshold in the list
ClusterFlagsCorrect(results) ==
    \A k \in 1..Len(results) :
        /\ "cluster_risk" \in DOMAIN results[k]
        /\ results[k].cluster_risk <=>
               Cardinality({m \in 1..Len(results) :
                               results[m].sector = results[k].sector})
                   >= SECTOR_CONCENTRATION_THRESHOLD
        /\ \A m \in 1..Len(results) :
               results[m].sector = results[k].sector =>
                   results[m].cluster_risk = results[k].cluster_risk

\* RESULTS with its first n results flagged by an earlier call
PrefixFlagged(n) ==
    add_risk_flags(SubSeq(RESULTS, 1, n)) \o SubSeq(RESULTS, n + 1, Len(RESULTS))

\* C27: add_risk_flags applied to RESULTS, whatever prefix of it an autosave
\* or the interrupt handler flagged before, gives every result the
\* cluster_risk its sector's count in the whole list calls for, the same for
\* all results of a sector, and applying it again changes nothing.
C27_ClusterFlags ==
    \A n \in 0..Len(RESULTS) :
        LET flagged == add_risk_flags(PrefixFlagged(n))
        IN  /\ ClusterFlagsCorrect(flagged)
            /\ add_risk_flags(flagged) = flagged
            /\ flagged = add_risk_flags(RESULTS)

\* the same after each call the screener makes: an autosave, the final
\* output, the interrupt handler
C27_FlagsAfterEveryCall ==
    [][((i' = i + 1 /\ screen_log'[i'].autosaved)
        \/ (pc = "loop" /\ pc' # "loop")
        \/ sigint'.count = sigint.count + 1)
       => ClusterFlagsCorrect(RESULTS')]_vars

C27_Witness ==
    /\ pc = "done"
    /\ Len(RESULTS) = 2
    /\ RESULTS[1].ticker = 1
    /\ RESULTS[2].ticker = 3
    /\ screen_log[2].autosaved
    /\ RESULTS[1].sector = RESULTS[2].sector
    /\ RESULTS[1].cluster_risk
    /\ RESULTS[2].cluster_risk

\* C28: for every positive capital, every tolerance >= 0 and every
\* 5th-percentile return, the recommended capital is at most the starting
\* capital, position_pct and cash_pct lie in [0, 100], and they add up to 100.
C28_AllocationWithinCapital ==
    (/\ sizing # None
     /\ RGt(sizing[1].starting_capital, R(0))
     /\ RLe(R(0), sizing[1].max_tolerable_loss_pct))
    => /\ RLe(sizing[1].recommended_position, sizing[1].starting_capital)
       /\ RLe(R(0), sizing[1].position_pct)
       /\ RLe(sizing[1].position_pct, R(100))
       /\ RLe(R(0), sizing[1].cash_pct)
       /\ RLe(sizing[1].cash_pct, R(100))
       /\ RAdd(sizing[1].position_pct, sizing[1].cash_pct) = R(100)

C28_Witness ==
    /\ sizing # None
    /\ sizing[1].loss_5th = Q(-1, 3)
    /\ sizing[1].max_tolerable_loss_pct = R(20)
    /\ sizing[1].starting_capital = R(50000)
    /\ sizing[1].recommended_position = R(50000)
    /\ sizing[1].cash_pct = R(0)

C28_WitnessNaN ==
    /\ sizing # None
    /\ IsNaN(sizing[1].loss_5th)
    /\ sizing[1].position_pct = R(100)

BacktestForm == FilenameForm(<<R(0)>>)

\* C30: run_full_analysis names its output file with the _BACKTEST_ tag
\* exactly when the engine was constructed with a custom_stock_price, in the
\* split engine as in the monolithic one.
C30_BacktestTagIffCustomPrice ==
    engine.filename # None =>
        (engine.filename[1] = BacktestForm <=> sim_args.custom_stock_price # None)

\* the monolithic engine alone does
C30_MonolithicBacktestTag ==
    (engine.filename # None /\ engine.variant = "monolithic") =>
        (engine.filename[1] = BacktestForm <=> sim_args.custom_stock_price # None)

\* the split engine never tags the name
C30_SplitNeverTagged ==
    (engine.filename # None /\ engine.variant = "split") =>
        engine.filename[1] # BacktestForm

====
